---- MODULE Spec2Model ----
(***************************************************************************)
(* Model of dataset_creation/laptop_client.py: class CameraClient.         *)
(*                                                                         *)
(* Two threads share one object: the main thread runs start() (connect,    *)
(* wait for the first frame, display/input loop, stop()) and the receiver  *)
(* thread runs receive_frames().  The environment is the camera server: it *)
(* puts length-prefixed frames on the stream socket, may close the stream  *)
(* at any byte, and answers (or never answers) SAVE commands.              *)
(***************************************************************************)
EXTENDS Integers, Sequences, FiniteSets, TLC

\* ------------------------------------------------------------------ bounds
MaxFrames == 2      \* frames the server puts on the stream
MaxPayload == 2     \* longest payload, in bytes
MaxKeys == 2        \* key presses the operator makes

\* --------------------------------------------------------- program constants
SizeLen == 4        \* length prefix: 4 bytes
RecvMax == 4096     \* largest payload read requested from the socket
ByteBase == 256

VARIABLES
    \* fields of CameraClient
    stream_socket, save_socket, running, current_frame, frame_lock,
    image_counter, files,
    \* main thread: start() and the save methods it calls
    mpc, key, filename, remote_success, local_success, local_frame,
    display_frame, keys_used, stop_calls, exit_reason, saves,
    \* receiver thread: receive_frames()
    rpc, size_data, frame_size, frame_data, frame, rerror, riter,
    \* environment: the stream and the save server
    wire, rpos, sent, peer_closed, server_hung, command

objVars == <<stream_socket, save_socket, running, current_frame, frame_lock,
             image_counter, files>>
mainVars == <<mpc, key, filename, remote_success, local_success, local_frame,
              display_frame, keys_used, stop_calls, exit_reason, saves>>
recvVars == <<rpc, size_data, frame_size, frame_data, frame, rerror, riter>>
envVars == <<wire, rpos, sent, peer_closed, server_hung, command>>
vars == <<objVars, mainVars, recvVars, envVars>>

\* ------------------------------------------------------------------ values
None == <<"None">>
Image(buf) == <<"img", buf>>
NoName == <<"None">>
Min(a, b) == IF a < b THEN a ELSE b

\* bytes of a payload: the first one says what the payload is
TagImage == 1       \* pickled buffer holding a decodable image
TagNoImage == 2     \* pickled buffer that is no image
TagGarbage == 3     \* not a pickle
Fill == 1

RECURSIVE Ones(_)
Ones(n) == IF n = 0 THEN <<>> ELSE <<Fill>> \o Ones(n - 1)

\* the payloads the server may send: empty, garbage, no image, and an image
\* of every length
Payloads ==
    {<<>>, <<TagGarbage>>, <<TagNoImage>>}
       \cup {<<TagImage>> \o Ones(n) : n \in 0..(MaxPayload - 1)}

\* struct.pack("!L", n): the sender's 4-byte big-endian length prefix
Pack(n) ==
    << (n \div (ByteBase * ByteBase * ByteBase)) % ByteBase,
       (n \div (ByteBase * ByteBase)) % ByteBase,
       (n \div ByteBase) % ByteBase,
       n % ByteBase >>

\* struct.unpack("!L", size_data)[0]
Unpack(b) == ((b[1] * ByteBase + b[2]) * ByteBase + b[3]) * ByteBase + b[4]

\* pickle.loads(frame_data): raises on an empty or malformed payload
LoadsRaises(data) == data = <<>> \/ data[1] = TagGarbage
Loads(data) == data

\* cv2.imdecode(buf, IMREAD_COLOR): None when the buffer is no image
Imdecode(buf) == IF buf[1] = TagImage THEN Image(buf) ELSE None

\* f"ball_dataset_{self.image_counter:04d}_{timestamp}.jpg"
GenName(n) == <<"ball_dataset", n>>

\* "SAVE:<filename>" or "SAVE"
Command(fn) == IF fn # NoName THEN <<"SAVE", fn>> ELSE <<"SAVE">>

\* response.startswith("SAVED:")
Responses == {"SAVED:path", "ERROR:disk full", ""}
StartsWithSaved(r) == r = "SAVED:path"

\* the frame the server sent as its i-th, and where it ends on the wire
RECURSIVE FrameEnd(_)
FrameEnd(i) == IF i = 0 THEN 0 ELSE FrameEnd(i - 1) + SizeLen + Len(sent[i])

\* ------------------------------------------------------------------- Init
Init ==
    /\ stream_socket = "none" /\ save_socket = "none"
    /\ running = FALSE
    /\ current_frame = None
    /\ frame_lock = "free"
    /\ image_counter = 0
    /\ files = {}
    /\ mpc = "connect_stream"
    /\ key = "none" /\ filename = NoName
    /\ remote_success = FALSE /\ local_success = FALSE
    /\ local_frame = None /\ display_frame = None
    /\ keys_used = 0 /\ stop_calls = 0 /\ exit_reason = "none"
    /\ saves = [remote_ok |-> 0, local_ok |-> 0, both_ok |-> 0, other |-> 0]
    /\ rpc = "idle"
    /\ size_data = <<>> /\ frame_size = 0 /\ frame_data = <<>>
    /\ frame = None /\ rerror = "none" /\ riter = 0
    /\ wire = <<>> /\ rpos = 0 /\ sent = <<>>
    /\ peer_closed = FALSE /\ server_hung = FALSE
    /\ command = <<>>

\* ------------------------------------------------- environment: the server
\* the camera server writes one whole frame: struct.pack("!L", len) + payload
ServerSend ==
    /\ stream_socket = "connected" /\ ~peer_closed
    /\ Len(sent) < MaxFrames
    /\ \E p \in Payloads :
          /\ wire' = wire \o Pack(Len(p)) \o p
          /\ sent' = Append(sent, p)
    /\ UNCHANGED <<rpos, peer_closed, server_hung, command>>
    /\ UNCHANGED <<objVars, mainVars, recvVars>>

\* the connection dies while a frame is being written: only k bytes of it arrive
ServerSendPartial ==
    /\ stream_socket = "connected" /\ ~peer_closed
    /\ Len(sent) < MaxFrames
    /\ \E p \in Payloads : \E k \in 1..(SizeLen + Len(p) - 1) :
          /\ wire' = wire \o SubSeq(Pack(Len(p)) \o p, 1, k)
          /\ sent' = Append(sent, p)
    /\ peer_closed' = TRUE
    /\ UNCHANGED <<rpos, server_hung, command>>
    /\ UNCHANGED <<objVars, mainVars, recvVars>>

\* the server closes the stream between two frames
PeerClose ==
    /\ stream_socket = "connected" /\ ~peer_closed
    /\ rpos = Len(wire)
    /\ peer_closed' = TRUE
    /\ UNCHANGED <<wire, rpos, sent, server_hung, command>>
    /\ UNCHANGED <<objVars, mainVars, recvVars>>

\* the save server stops answering
ServerHang ==
    /\ mpc = "remote_recv" /\ ~server_hung
    /\ server_hung' = TRUE
    /\ UNCHANGED <<wire, rpos, sent, peer_closed, command>>
    /\ UNCHANGED <<objVars, mainVars, recvVars>>

\* ------------------------------------------- receiver thread: receive_frames
\* socket.recv(n): the lengths of the chunk it may return; {} when it blocks
RecvLens(n) ==
    IF rpos < Len(wire) THEN 1..Min(n, Len(wire) - rpos)
    ELSE IF peer_closed THEN {0}
    ELSE {}

Chunk(k) == SubSeq(wire, rpos + 1, rpos + k)

\* an empty chunk is appended like any other
ChunkLostIgnored(chunk) == FALSE

\* `if not chunk: raise ConnectionError("Connection lost")`
ChunkLost(chunk) == chunk = <<>>

\* the payload read asks for a full buffer whatever is left of the frame
DataRequestWhole(fs, fd) == RecvMax

\* the number of bytes asked of recv for the length prefix and for the payload
SizeRequest(sd) == SizeLen - Len(sd)
DataRequest(fs, fd) == Min(RecvMax, fs - Len(fd))

\* the payload loop stops one byte short
DataIncompleteShort(fs, fd) == Len(fd) + 1 < fs

\* `while len(size_data) < 4` and `while len(frame_data) < frame_size`
SizeIncomplete(sd) == Len(sd) < SizeLen
DataIncomplete(fs, fd) == Len(fd) < fs

\* the except clause also clears the running flag
ReceiverRaiseStops(err) ==
    /\ rpc' = "dead"
    /\ rerror' = err
    /\ running' = FALSE
    /\ UNCHANGED <<stream_socket, save_socket, current_frame, frame_lock,
                   image_counter, files>>
    /\ UNCHANGED mainVars

\* the except clause of receive_frames: the thread ends, nothing else changes
ReceiverRaise(err) ==
    /\ rpc' = "dead"
    /\ rerror' = err
    /\ UNCHANGED <<objVars, mainVars>>

\* `while self.running:` and `size_data = b""`
ReceiverLoop ==
    /\ rpc = "loop"
    /\ IF running
         THEN /\ rpc' = "recv_size"
              /\ size_data' = <<>>
         ELSE /\ rpc' = "done"
              /\ UNCHANGED size_data
    /\ UNCHANGED <<frame_size, frame_data, frame, rerror, riter>>
    /\ UNCHANGED <<objVars, mainVars, envVars>>

\* one pass of the loop that accumulates the 4-byte length prefix
RecvSize ==
    /\ rpc = "recv_size" /\ stream_socket = "connected"
    /\ SizeIncomplete(size_data)
    /\ \E k \in RecvLens(SizeRequest(size_data)) :
          IF ChunkLost(Chunk(k))
            THEN /\ ReceiverRaise("ConnectionLost")
                 /\ UNCHANGED <<size_data, frame_size, frame_data, frame, riter>>
                 /\ UNCHANGED envVars
            ELSE /\ size_data' = size_data \o Chunk(k)
                 /\ rpos' = rpos + k
                 /\ UNCHANGED <<rpc, rerror, frame_size, frame_data, frame, riter>>
                 /\ UNCHANGED <<wire, sent, peer_closed, server_hung, command>>
                 /\ UNCHANGED <<objVars, mainVars>>

\* the prefix is complete: frame_size = struct.unpack(...), frame_data = b""
UnpackSize ==
    /\ rpc = "recv_size"
    /\ ~SizeIncomplete(size_data)
    /\ frame_size' = Unpack(size_data)
    /\ frame_data' = <<>>
    /\ rpc' = "recv_data"
    /\ UNCHANGED <<size_data, frame, rerror, riter>>
    /\ UNCHANGED <<objVars, mainVars, envVars>>

\* one pass of the loop that accumulates the payload
RecvData ==
    /\ rpc = "recv_data" /\ stream_socket = "connected"
    /\ DataIncomplete(frame_size, frame_data)
    /\ \E k \in RecvLens(DataRequest(frame_size, frame_data)) :
          IF ChunkLost(Chunk(k))
            THEN /\ ReceiverRaise("ConnectionLost")
                 /\ UNCHANGED <<size_data, frame_size, frame_data, frame, riter>>
                 /\ UNCHANGED envVars
            ELSE /\ frame_data' = frame_data \o Chunk(k)
                 /\ rpos' = rpos + k
                 /\ UNCHANGED <<rpc, rerror, size_data, frame_size, frame, riter>>
                 /\ UNCHANGED <<wire, sent, peer_closed, server_hung, command>>
                 /\ UNCHANGED <<objVars, mainVars>>

\* recv on a socket that stop() has closed raises OSError
RecvOnClosed ==
    /\ \/ rpc = "recv_size" /\ SizeIncomplete(size_data)
       \/ rpc = "recv_data" /\ DataIncomplete(frame_size, frame_data)
    /\ stream_socket = "closed"
    /\ ReceiverRaise("SocketError")
    /\ UNCHANGED <<size_data, frame_size, frame_data, frame, riter>>
    /\ UNCHANGED envVars

\* the payload is complete: pickle.loads, then cv2.imdecode
Decode ==
    /\ rpc = "recv_data"
    /\ ~DataIncomplete(frame_size, frame_data)
    /\ riter' = riter + 1
    /\ IF LoadsRaises(frame_data)
         THEN /\ ReceiverRaise("DecodeError")
              /\ UNCHANGED frame
         ELSE /\ frame' = Imdecode(Loads(frame_data))
              /\ rpc' = "publish_acquire"
              /\ UNCHANGED rerror
              /\ UNCHANGED <<objVars, mainVars>>
    /\ UNCHANGED <<size_data, frame_size, frame_data>>
    /\ UNCHANGED envVars

\* `with self.frame_lock:` entered by the receiver
PublishAcquire ==
    /\ rpc = "publish_acquire"
    /\ frame_lock = "free"
    /\ frame_lock' = "receiver"
    /\ rpc' = "publish"
    /\ UNCHANGED <<stream_socket, save_socket, running, current_frame,
                   image_counter, files>>
    /\ UNCHANGED <<size_data, frame_size, frame_data, frame, rerror, riter>>
    /\ UNCHANGED <<mainVars, envVars>>

\* the slot keeps the first frame it was given
PublishFirstOnly ==
    /\ rpc = "publish"
    /\ current_frame' = IF current_frame = None THEN frame ELSE current_frame
    /\ frame_lock' = "free"
    /\ rpc' = "loop"
    /\ UNCHANGED <<stream_socket, save_socket, running, image_counter, files>>
    /\ UNCHANGED <<size_data, frame_size, frame_data, frame, rerror, riter>>
    /\ UNCHANGED <<mainVars, envVars>>

\* `self.current_frame = frame`, then the lock is released
Publish ==
    /\ rpc = "publish"
    /\ current_frame' = frame
    /\ frame_lock' = "free"
    /\ rpc' = "loop"
    /\ UNCHANGED <<stream_socket, save_socket, running, image_counter, files>>
    /\ UNCHANGED <<size_data, frame_size, frame_data, frame, rerror, riter>>
    /\ UNCHANGED <<mainVars, envVars>>

Receiver ==
    \/ ReceiverLoop \/ RecvSize \/ UnpackSize \/ RecvData \/ RecvOnClosed
    \/ Decode \/ PublishAcquire \/ Publish

\* ------------------------------------------------------ main thread: start
\* the method returns, an exception is caught or a signal arrives: the
\* `finally` clause of start() is next; a lock held by a `with` is released
\* and the locals of the loop are not used again
ToStop(why) ==
    /\ mpc' = "stop"
    /\ exit_reason' = why
    /\ frame_lock' = IF frame_lock = "main" THEN "free" ELSE frame_lock
    /\ key' = "none" /\ filename' = NoName
    /\ remote_success' = FALSE /\ local_success' = FALSE
    /\ local_frame' = None /\ display_frame' = None

loopLocals == <<key, filename, remote_success, local_success, local_frame,
                display_frame>>

\* start() goes on to the save server whatever connect_to_stream returned
ConnectStreamIgnored ==
    /\ mpc = "connect_stream"
    /\ \E r \in {"connected", "refused", "no_socket"} :
          stream_socket' =
                CASE r = "connected" -> "connected"
                  [] r = "refused" -> "open"
                  [] r = "no_socket" -> "none"
    /\ mpc' = "connect_save"
    /\ UNCHANGED <<exit_reason, frame_lock, loopLocals>>
    /\ UNCHANGED <<save_socket, running, current_frame, image_counter, files>>
    /\ UNCHANGED <<keys_used, stop_calls, saves>>
    /\ UNCHANGED <<recvVars, envVars>>

\* connect_to_stream: socket.socket() and connect(); any exception gives False
ConnectStream ==
    /\ mpc = "connect_stream"
    /\ \E r \in {"connected", "refused", "no_socket"} :
          /\ stream_socket' =
                CASE r = "connected" -> "connected"
                  [] r = "refused" -> "open"
                  [] r = "no_socket" -> "none"
          /\ IF r = "connected"
               THEN /\ mpc' = "connect_save"
                    /\ UNCHANGED <<exit_reason, frame_lock, loopLocals>>
               ELSE ToStop("connect")
    /\ UNCHANGED <<save_socket, running, current_frame, image_counter, files>>
    /\ UNCHANGED <<keys_used, stop_calls, saves>>
    /\ UNCHANGED <<recvVars, envVars>>

\* connect_to_save_server, then `self.running = True` and the thread start
ConnectSave ==
    /\ mpc = "connect_save"
    /\ \E r \in {"connected", "refused", "no_socket"} :
          /\ save_socket' =
                CASE r = "connected" -> "connected"
                  [] r = "refused" -> "open"
                  [] r = "no_socket" -> "none"
          /\ IF r = "connected"
               THEN /\ running' = TRUE
                    /\ rpc' = "loop"
                    /\ mpc' = "wait"
                    /\ UNCHANGED <<exit_reason, frame_lock, loopLocals>>
               ELSE /\ ToStop("connect")
                    /\ UNCHANGED <<running, rpc>>
    /\ UNCHANGED <<stream_socket, current_frame, image_counter, files>>
    /\ UNCHANGED <<keys_used, stop_calls, saves>>
    /\ UNCHANGED <<size_data, frame_size, frame_data, frame, rerror, riter>>
    /\ UNCHANGED envVars

\* `while self.current_frame is None and self.running: time.sleep(0.1)`:
\* the loop is left once its condition is false (a sleep changes nothing)
WaitFirstFrame ==
    /\ mpc = "wait"
    /\ ~(current_frame = None /\ running)
    /\ mpc' = "loop_check"
    /\ UNCHANGED <<key, filename, remote_success, local_success, local_frame,
                   display_frame, keys_used, stop_calls, exit_reason, saves>>
    /\ UNCHANGED <<objVars, recvVars, envVars>>

\* `while self.running:` of the display loop
LoopCheck ==
    /\ mpc = "loop_check"
    /\ IF running
         THEN /\ mpc' = "display_acquire"
              /\ UNCHANGED <<exit_reason, frame_lock, loopLocals>>
         ELSE ToStop("flag")
    /\ UNCHANGED <<stream_socket, save_socket, running, current_frame,
                   image_counter, files>>
    /\ UNCHANGED <<keys_used, stop_calls, saves>>
    /\ UNCHANGED <<recvVars, envVars>>

\* `with self.frame_lock:` entered by the display loop
DisplayAcquire ==
    /\ mpc = "display_acquire"
    /\ frame_lock = "free"
    /\ frame_lock' = "main"
    /\ mpc' = "display"
    /\ UNCHANGED <<stream_socket, save_socket, running, current_frame,
                   image_counter, files>>
    /\ UNCHANGED <<key, filename, remote_success, local_success, local_frame,
                   display_frame, keys_used, stop_calls, exit_reason, saves>>
    /\ UNCHANGED <<recvVars, envVars>>

\* the body of the `with`: copy, overlay and imshow when there is a frame;
\* an exception of the image library is caught by `except Exception`
Display ==
    /\ mpc = "display"
    /\ \/ /\ display_frame' = IF current_frame # None THEN current_frame
                                                       ELSE display_frame
          /\ frame_lock' = "free"
          /\ mpc' = "key"
          /\ UNCHANGED <<exit_reason, key, filename, remote_success,
                         local_success, local_frame>>
       \/ /\ current_frame # None
          /\ ToStop("error")
    /\ UNCHANGED <<stream_socket, save_socket, running, current_frame,
                   image_counter, files>>
    /\ UNCHANGED <<keys_used, stop_calls, saves>>
    /\ UNCHANGED <<recvVars, envVars>>

Keys == {"q", "s", "l", "b", "h"}

\* the counter and the filename of the 'b' branch, before the two saves
\* the 'b' branch names the file after the counter as it stands
BothCountSame(n) == n

BothCount(n) == n + 1

\* `key = cv2.waitKey(1) & 0xFF` and the branch taken on it
WaitKey ==
    /\ mpc = "key"
    /\ \/ /\ mpc' = "loop_check"
          /\ key' = "none"
          /\ remote_success' = FALSE /\ local_success' = FALSE
          /\ UNCHANGED <<keys_used, filename, image_counter, exit_reason,
                         frame_lock, local_frame, display_frame>>
       \/ /\ keys_used < MaxKeys
          /\ keys_used' = keys_used + 1
          /\ \E k \in Keys :
                IF k = "q"
                  THEN /\ ToStop("quit")
                       /\ UNCHANGED image_counter
                  ELSE /\ key' = k
                       /\ remote_success' = FALSE /\ local_success' = FALSE
                       /\ mpc' = CASE k = "s" -> "remote_send"
                                   [] k = "l" -> "local_acquire"
                                   [] k = "b" -> "remote_send"
                                   [] k = "h" -> "loop_check"
                       /\ image_counter' =
                             IF k = "b" THEN BothCount(image_counter)
                                        ELSE image_counter
                       /\ filename' =
                             IF k = "b" THEN GenName(image_counter')
                                        ELSE NoName
                       /\ UNCHANGED <<exit_reason, frame_lock, local_frame,
                                      display_frame>>
    /\ UNCHANGED <<stream_socket, save_socket, running, current_frame, files>>
    /\ UNCHANGED <<stop_calls, saves>>
    /\ UNCHANGED <<recvVars, envVars>>

\* the 's' branch counts whatever save_image_remote returns
RemoteOnlyCountAlways(n, ok) == n + 1

\* ----------------------------------------------- save_image_remote (main)
\* `if self.save_image_remote(): self.image_counter += 1` of the 's' branch
RemoteOnlyCount(n, ok) == IF ok THEN n + 1 ELSE n

\* the 'b' branch takes its first increment back when both saves failed
BothResultCountUndo(n, rs, ls) == IF rs \/ ls THEN n ELSE n - 1

\* `if remote_success or local_success: self.image_counter += 1`
BothResultCount(n, rs, ls) == IF rs \/ ls THEN n + 1 ELSE n

Bump(kind) == [saves EXCEPT ![kind] = @ + 1]

\* save_image_remote returns ok to the branch of start() that called it
RemoteReturn(ok) ==
    /\ remote_success' = ok
    /\ IF key = "s"
         THEN /\ image_counter' = RemoteOnlyCount(image_counter, ok)
              /\ saves' = Bump(IF ok THEN "remote_ok" ELSE "other")
              /\ mpc' = "loop_check"
         ELSE /\ mpc' = "local_acquire"
              /\ UNCHANGED <<image_counter, saves>>
    /\ UNCHANGED <<exit_reason, frame_lock>>

\* the exception leaves save_image_remote and reaches `except Exception` of
\* start()
RemoteExceptEscapes ==
    /\ mpc' = "stop"
    /\ exit_reason' = "error"
    /\ UNCHANGED <<remote_success, image_counter, saves, frame_lock>>

\* an exception inside save_image_remote: `except Exception: return False`
RemoteExcept == RemoteReturn(FALSE)

\* `self.save_socket.send(command.encode('utf-8'))`
RemoteSend ==
    /\ mpc = "remote_send"
    /\ \/ /\ command' = Command(filename)
          /\ mpc' = "remote_recv"
          /\ UNCHANGED <<remote_success, image_counter, saves, exit_reason,
                         frame_lock>>
       \/ /\ RemoteExcept
          /\ UNCHANGED command
    /\ UNCHANGED <<stream_socket, save_socket, running, current_frame, files>>
    /\ UNCHANGED <<key, filename, local_success, local_frame, display_frame,
                   keys_used, stop_calls>>
    /\ UNCHANGED <<wire, rpos, sent, peer_closed, server_hung>>
    /\ UNCHANGED recvVars

\* the response read gives up instead of waiting for the server
RecvBlocksNever == FALSE

\* `self.save_socket.recv(1024)` has no timeout: it waits while the server
\* sends nothing
RecvBlocks == server_hung

\* `response = self.save_socket.recv(1024).decode('utf-8')` and the test on
\* it; the call blocks for as long as the server does not answer
RemoteRecv ==
    /\ mpc = "remote_recv"
    /\ ~RecvBlocks
    /\ \/ \E r \in Responses : RemoteReturn(StartsWithSaved(r))
       \/ RemoteExcept
    /\ UNCHANGED <<stream_socket, save_socket, running, current_frame, files>>
    /\ UNCHANGED <<key, filename, local_success, local_frame, display_frame,
                   keys_used, stop_calls>>
    /\ UNCHANGED <<recvVars, envVars>>

\* save_image_local counts every call, named or not
LocalCountAlways(n, fn) == n + 1

\* save_image_local never touches the counter
LocalCountNever(n, fn) == n

\* ------------------------------------------------ save_image_local (main)
\* `if filename is None: self.image_counter += 1` and the name made from it
LocalCount(n, fn) == IF fn = NoName THEN n + 1 ELSE n
\* save_image_local makes its own name whatever the caller passed
LocalNameFresh(n, fn) == GenName(n + 1)
LocalName(n, fn) == IF fn = NoName THEN GenName(LocalCount(n, fn)) ELSE fn

\* save_image_local returns ok to the branch of start() that called it
LocalReturn(ok) ==
    /\ local_success' = ok
    /\ mpc' = "loop_check"
    /\ IF key = "b"
         THEN saves' = Bump(IF remote_success /\ ok THEN "both_ok" ELSE "other")
         ELSE saves' = Bump(IF ok THEN "local_ok" ELSE "other")
    /\ UNCHANGED exit_reason

\* the counter after the return: the 'l' branch only prints, 'b' may count
AfterLocalCount(n, ok) ==
    IF key = "b" THEN BothResultCount(n, remote_success, ok) ELSE n

\* `with self.frame_lock:` entered by save_image_local
LocalAcquire ==
    /\ mpc = "local_acquire"
    /\ frame_lock = "free"
    /\ frame_lock' = "main"
    /\ mpc' = "local_copy"
    /\ UNCHANGED <<stream_socket, save_socket, running, current_frame,
                   image_counter, files>>
    /\ UNCHANGED <<key, filename, remote_success, local_success, local_frame,
                   display_frame, keys_used, stop_calls, exit_reason, saves>>
    /\ UNCHANGED <<recvVars, envVars>>

\* the copy leaves the `with` block open: the lock is kept for the write
LocalCopyKeepsLock ==
    /\ mpc = "local_copy"
    /\ IF current_frame = None
         THEN /\ LocalReturn(FALSE)
              /\ image_counter' = AfterLocalCount(image_counter, FALSE)
              /\ frame_lock' = "free"
              /\ filename' = NoName
              /\ UNCHANGED local_frame
         ELSE /\ local_frame' = current_frame
              /\ mpc' = "local_write"
              /\ UNCHANGED <<local_success, saves, exit_reason, image_counter,
                             frame_lock, filename>>
    /\ UNCHANGED <<stream_socket, save_socket, running, current_frame, files>>
    /\ UNCHANGED <<key, remote_success, display_frame, keys_used, stop_calls>>
    /\ UNCHANGED <<recvVars, envVars>>

\* the body of the `with`: return False when there is no frame, else copy it
LocalCopy ==
    /\ mpc = "local_copy"
    /\ frame_lock' = "free"
    /\ IF current_frame = None
         THEN /\ LocalReturn(FALSE)
              /\ image_counter' = AfterLocalCount(image_counter, FALSE)
              /\ filename' = NoName
              /\ UNCHANGED local_frame
         ELSE /\ local_frame' = current_frame
              /\ mpc' = "local_write"
              /\ UNCHANGED <<local_success, saves, exit_reason, image_counter,
                             filename>>
    /\ UNCHANGED <<stream_socket, save_socket, running, current_frame, files>>
    /\ UNCHANGED <<key, remote_success, display_frame, keys_used, stop_calls>>
    /\ UNCHANGED <<recvVars, envVars>>

\* the filename is made if none was given, then cv2.imwrite: it writes the
\* file, reports a failure, or raises (`except Exception: return False`)
LocalWrite ==
    /\ mpc = "local_write"
    /\ \E w \in {"written", "failed", "raised"} :
          /\ LocalReturn(w = "written")
          /\ image_counter' =
                AfterLocalCount(LocalCount(image_counter, filename), w = "written")
          /\ files' =
                IF w = "written"
                  THEN {f \in files : f[1] # LocalName(image_counter, filename)}
                       \cup {<<LocalName(image_counter, filename), local_frame>>}
                  ELSE files
    /\ filename' = NoName
    /\ local_frame' = None
    /\ UNCHANGED <<stream_socket, save_socket, running, current_frame,
                   frame_lock>>
    /\ UNCHANGED <<key, remote_success, display_frame, keys_used, stop_calls>>
    /\ UNCHANGED <<recvVars, envVars>>

\* ------------------------------------------------------ interrupt and stop
TryPcs == {"connect_stream", "connect_save", "wait", "loop_check",
           "display_acquire", "display", "key", "remote_send", "remote_recv",
           "local_acquire", "local_copy", "local_write"}
SavePcs == {"remote_send", "remote_recv", "local_acquire", "local_copy",
            "local_write"}
InteractivePcs == {"loop_check", "display_acquire", "display", "key"} \cup SavePcs

\* KeyboardInterrupt raised in the main thread inside the `try` of start();
\* a combined save it cuts short is recorded as one that did not succeed
Interrupt ==
    /\ mpc \in TryPcs
    /\ ToStop("interrupt")
    /\ saves' = IF key = "b" /\ mpc \in SavePcs THEN Bump("other") ELSE saves
    /\ UNCHANGED <<stream_socket, save_socket, running, current_frame,
                   image_counter, files>>
    /\ UNCHANGED <<keys_used, stop_calls>>
    /\ UNCHANGED <<recvVars, envVars>>

\* only a socket that got connected is closed
ClosedIfConnected(sock) == IF sock = "connected" THEN "closed" ELSE sock

\* socket.close() when the attribute is set
Closed(sock) == IF sock # "none" THEN "closed" ELSE sock

\* `finally: self.stop()`
Stop ==
    /\ mpc = "stop"
    /\ running' = FALSE
    /\ stream_socket' = Closed(stream_socket)
    /\ save_socket' = Closed(save_socket)
    /\ stop_calls' = stop_calls + 1
    /\ mpc' = "done"
    /\ UNCHANGED <<current_frame, frame_lock, image_counter, files>>
    /\ UNCHANGED <<key, filename, remote_success, local_success, local_frame,
                   display_frame, keys_used, exit_reason, saves>>
    /\ UNCHANGED <<recvVars, envVars>>

Main ==
    \/ ConnectStream \/ ConnectSave \/ WaitFirstFrame \/ LoopCheck
    \/ DisplayAcquire \/ Display \/ WaitKey
    \/ RemoteSend \/ RemoteRecv
    \/ LocalAcquire \/ LocalCopy \/ LocalWrite
    \/ Interrupt \/ Stop

Server == ServerSend \/ ServerSendPartial \/ PeerClose \/ ServerHang

Next == Main \/ Receiver \/ Server

Spec == Init /\ [][Next]_vars

\* both threads are scheduled; nothing obliges the operator to interrupt or
\* the server to send, close or hang
MainProgress ==
    \/ ConnectStream \/ ConnectSave \/ WaitFirstFrame \/ LoopCheck
    \/ DisplayAcquire \/ Display \/ WaitKey
    \/ RemoteSend \/ RemoteRecv
    \/ LocalAcquire \/ LocalCopy \/ LocalWrite
    \/ Stop

FairSpec ==
    /\ Spec
    /\ WF_vars(MainProgress)
    /\ WF_vars(Receiver)

\* ------------------------------------- save_image_local called by name
\* save_image_local(filename) is a public method; start() only ever calls it
\* without a name or with a fresh one.  Here a caller that owns a connected
\* client with its receiver running calls it with names of its own choosing.
MaxCalls == 3
ExplicitNames == {<<"explicit", 1>>, <<"explicit", 2>>}

LocalInit ==
    /\ stream_socket = "connected" /\ save_socket = "none"
    /\ running = TRUE
    /\ current_frame = None
    /\ frame_lock = "free"
    /\ image_counter = 0
    /\ files = {}
    /\ mpc = "loop_check"
    /\ key = "none" /\ filename = NoName
    /\ remote_success = FALSE /\ local_success = FALSE
    /\ local_frame = None /\ display_frame = None
    /\ keys_used = 0 /\ stop_calls = 0 /\ exit_reason = "none"
    /\ saves = [remote_ok |-> 0, local_ok |-> 0, both_ok |-> 0, other |-> 0]
    /\ rpc = "loop"
    /\ size_data = <<>> /\ frame_size = 0 /\ frame_data = <<>>
    /\ frame = None /\ rerror = "none" /\ riter = 0
    /\ wire = <<>> /\ rpos = 0 /\ sent = <<>>
    /\ peer_closed = FALSE /\ server_hung = FALSE
    /\ command = <<>>

\* `def save_image_local(self, filename=None)` entered with filename given
CallLocal ==
    /\ mpc = "loop_check"
    /\ keys_used < MaxCalls
    /\ \E fn \in ExplicitNames : filename' = fn
    /\ keys_used' = keys_used + 1
    /\ local_success' = FALSE
    /\ mpc' = "local_acquire"
    /\ UNCHANGED objVars
    /\ UNCHANGED <<key, remote_success, local_frame, display_frame, stop_calls,
                   exit_reason, saves>>
    /\ UNCHANGED <<recvVars, envVars>>

LocalNext ==
    \/ CallLocal \/ LocalAcquire \/ LocalCopy \/ LocalWrite
    \/ ServerSend
    \/ ReceiverLoop \/ RecvSize \/ UnpackSize \/ RecvData \/ Decode
    \/ PublishAcquire \/ Publish

LocalSpec == LocalInit /\ [][LocalNext]_vars

\* ------------------------------------------------------------------ claims
\* no 'b' save is under way: its first increment has no outcome yet
NoBothPending == ~(key = "b" /\ mpc \in SavePcs)
Only(kind) ==
    /\ NoBothPending
    /\ \A k \in DOMAIN saves : k # kind => saves[k] = 0

\* the frames a reader may see: what the decoder makes of a payload that was
\* received whole
Decoded ==
    {None} \cup {Imdecode(Loads(sent[i])) :
                    i \in {j \in 1..riter : ~LoadsRaises(sent[j])}}

\* the receiver has just consumed a whole frame and handed it to the decoder
JustDecoded ==
    \/ rpc \in {"publish_acquire", "publish"}
    \/ rpc = "dead" /\ rerror = "DecodeError"

\* C1: whatever the fragmentation, the receiver has consumed exactly 4 + L
\* bytes of a frame when it decodes it: the bytes decoded are the payload the
\* server sent, the stream position is the end of that frame, and while a
\* frame is being read the position never passes the end of that frame.
C1_ExactFraming ==
    /\ riter <= Len(sent)
    /\ JustDecoded =>
          /\ riter >= 1
          /\ Len(size_data) + Len(frame_data) = SizeLen + Len(sent[riter])
          /\ frame_data = sent[riter]
          /\ rpos = FrameEnd(riter)
    /\ rpc = "recv_size" => rpos = FrameEnd(riter) + Len(size_data)
    /\ rpc = "recv_data" =>
          /\ rpos = FrameEnd(riter) + SizeLen + Len(frame_data)
          /\ riter < Len(sent)
          /\ rpos <= FrameEnd(riter + 1)

\* the first frame was decoded whole while bytes of the next one were waiting
C1_Witness ==
    /\ rpc = "publish_acquire" /\ riter = 1
    /\ Len(frame_data) = MaxPayload
    /\ Len(sent) = 2 /\ rpos < Len(wire)

\* C2 as stated: after successful local-only saves alone the counter is 0.
C2_Original == Only("local_ok") => image_counter = 0

\* C2 as amended: a local-only save adds exactly one to the counter when a
\* frame is available (whatever the write then does) and nothing when none
\* is; after N successful local-only saves alone the counter is N.
C2_LocalCounts ==
    /\ [](Only("local_ok") => image_counter = saves.local_ok)
    /\ [][(key = "l" /\ mpc = "local_write" /\ mpc' = "loop_check")
            => image_counter' = image_counter + 1]_vars
    /\ [][(key = "l" /\ mpc = "local_copy" /\ mpc' = "loop_check")
            => image_counter' = image_counter]_vars

C2_Witness ==
    /\ Only("local_ok") /\ saves.local_ok = 2 /\ image_counter = 2
    /\ mpc = "loop_check"

\* C3 as stated: a combined save counts once when a side succeeds and not at
\* all when both fail; after N combined saves with both sides succeeding,
\* alone, the counter is N.
C3_Original ==
    /\ Only("both_ok") => image_counter = saves.both_ok
    /\ (Only("other") /\ key = "b" /\ saves.other = 1
           /\ ~remote_success /\ ~local_success) => image_counter = 0

\* C4: a remote-only save adds exactly one to the counter when it reports
\* success and nothing when it reports failure; after N successful
\* remote-only saves alone the counter is N.
C4_RemoteCounts ==
    /\ [](Only("remote_ok") => image_counter = saves.remote_ok)
    /\ [][(key = "s" /\ mpc \in {"remote_send", "remote_recv"}
              /\ mpc' = "loop_check")
            => image_counter' =
                  image_counter + (IF remote_success' THEN 1 ELSE 0)]_vars

C4_Witness ==
    /\ Only("remote_ok") /\ saves.remote_ok = 2 /\ image_counter = 2
    /\ mpc = "loop_check"

\* C5: the slot, and every copy a reader took of it, is the empty value or the
\* decoding of a payload that was received whole.
C5_WholeFrames ==
    /\ current_frame \in Decoded
    /\ display_frame \in Decoded
    /\ local_frame \in Decoded
    /\ \A f \in files : f[2] \in Decoded \ {None}
    /\ frame_lock = "receiver" <=> rpc = "publish"
    /\ frame_lock = "main" <=> mpc \in {"display", "local_copy"}

\* the display shows the previous frame while the slot holds the next one
C5_Witness ==
    /\ current_frame # None /\ display_frame # None
    /\ display_frame # current_frame
    /\ mpc = "display"

\* the main thread waits in save_image_remote for a server that is silent
HungInRemote == server_hung /\ mpc = "remote_recv"

\* C6 as stated: while save_image_remote waits for a hung server, a frame the
\* receiver has published and the display has not yet shown gets rendered.
C6_Original ==
    (HungInRemote /\ current_frame # None /\ current_frame # display_frame)
       ~> (display_frame = current_frame \/ mpc \in {"stop", "done"})

\* C6 as amended: a hung save server stalls the whole main thread: while
\* save_image_remote waits, nothing is rendered, no key is handled and the
\* counter does not move, whatever the receiver publishes meanwhile; only an
\* interrupt ends the wait.
C6_HungStallsMain ==
    [][HungInRemote =>
          \/ /\ mpc' = "remote_recv"
             /\ display_frame' = display_frame
             /\ image_counter' = image_counter
             /\ keys_used' = keys_used
          \/ /\ mpc' = "stop"
             /\ exit_reason' = "interrupt"]_vars

\* the receiver has published a frame the blocked display has not shown
C6_Witness ==
    /\ HungInRemote
    /\ current_frame # None /\ display_frame # None
    /\ current_frame # display_frame
    /\ rpc = "loop"

\* the receiver is in a read with the prefix or the payload incomplete, and
\* the stream has ended: the read returns no bytes
ReadingPartial ==
    \/ rpc = "recv_size" /\ SizeIncomplete(size_data)
    \/ rpc = "recv_data" /\ DataIncomplete(frame_size, frame_data)
ZeroByteRead ==
    /\ ReadingPartial
    /\ stream_socket = "connected" /\ peer_closed /\ rpos = Len(wire)

\* C7: on a zero-byte read with the prefix or the payload incomplete the
\* receiver does not hang (its next step exists and changes its state), and
\* that step ends it with the connection-lost error, without decoding and
\* without touching the slot.
C7_ConnectionLost ==
    /\ [](ZeroByteRead => ENABLED <<RecvSize \/ RecvData>>_vars)
    /\ [][(ZeroByteRead /\ recvVars' # recvVars) =>
             /\ rpc' = "dead" /\ rerror' = "ConnectionLost"
             /\ riter' = riter /\ frame' = frame
             /\ current_frame' = current_frame]_vars

\* the stream ended inside a payload: the receiver ended, the slot still holds
\* the frame published before
C7_Witness ==
    /\ rpc = "dead" /\ rerror = "ConnectionLost"
    /\ Len(frame_data) >= 1 /\ Len(frame_data) < frame_size
    /\ riter = 1 /\ current_frame = Imdecode(Loads(sent[1]))
    /\ current_frame # None

\* C8: the step that ends the receiver (connection loss or decode error)
\* changes nothing of the main thread or of the object: the running flag, the
\* slot and the main thread's position stay; it leaves the lock free; and with
\* the receiver ended the display loop can still take its next step.
DisplayLoopPcs == {"loop_check", "display_acquire", "display", "key"}
C8_ReceiverOnly ==
    /\ [][(rpc # "dead" /\ rpc' = "dead" /\ rerror' \in {"ConnectionLost", "DecodeError"})
            => /\ running' = running
               /\ current_frame' = current_frame
               /\ mainVars' = mainVars
               /\ frame_lock' = frame_lock /\ frame_lock # "receiver"]_vars
    /\ []((rpc = "dead" /\ mpc \in InteractivePcs) => running)
    /\ []((rpc = "dead" /\ mpc \in DisplayLoopPcs)
            => ENABLED <<LoopCheck \/ DisplayAcquire \/ Display \/ WaitKey>>_vars)

\* the receiver ended on a decode error; the main thread goes on: it shows
\* the last frame and is in the middle of a local save
C8_Witness ==
    /\ rpc = "dead" /\ rerror = "DecodeError"
    /\ running /\ mpc = "local_write"
    /\ current_frame # None /\ display_frame = current_frame
    /\ local_frame = current_frame

\* C9: stop() runs once, after start() has left its try block whatever the
\* way; when start() is over the running flag is false and no socket that was
\* created is left open.
C9_StopAlways ==
    /\ stop_calls = (IF mpc = "done" THEN 1 ELSE 0)
    /\ mpc = "stop" =>
          /\ exit_reason \in {"quit", "interrupt", "connect", "error"}
          /\ ENABLED Stop
    /\ mpc = "done" =>
          /\ ~running
          /\ stream_socket \in {"none", "closed"}
          /\ save_socket \in {"none", "closed"}

\* start() ended on a refused save-server connection: both sockets, the
\* connected one and the one that never connected, are closed
C9_Witness ==
    /\ mpc = "done" /\ exit_reason = "connect" /\ stop_calls = 1
    /\ stream_socket = "closed" /\ save_socket = "closed"
    /\ ~running /\ rpc = "idle"

\* C10: a step of a save that is not cut by an interrupt leaves the session
\* alive: the flag stays true, the main thread stays in the display/input
\* loop and no exit is under way; a local save that finds no frame or writes
\* no file hands False back.
C10_SaveNeverAborts ==
    /\ [][(mpc \in SavePcs /\ exit_reason' # "interrupt") =>
             /\ running'
             /\ mpc' \in InteractivePcs
             /\ exit_reason' = "none"]_vars
    /\ [][(mpc = "local_copy" /\ current_frame = None
              /\ mpc' # mpc /\ exit_reason' # "interrupt")
            => (~local_success' /\ files' = files /\ mpc' = "loop_check")]_vars
    /\ [][(mpc = "local_write" /\ files' = files /\ mpc' = "loop_check")
            => ~local_success']_vars

\* a combined save has failed on both sides and the loop goes on
C10_Witness ==
    /\ mpc = "display" /\ running /\ key = "b"
    /\ ~remote_success /\ ~local_success
    /\ saves.other >= 1 /\ exit_reason = "none"

\* C11: a connection that fails at startup ends the startup: the failed
\* stream connection leads straight to the shutdown with the save socket never
\* created; after either failure the flag is never set, the receiver is never
\* started, no frame is ever published, and the main thread is in neither the
\* waiting nor the interactive state, for the rest of the run.
C11_ConnectFailureFatal ==
    /\ [][(mpc = "connect_stream" /\ mpc' # mpc /\ stream_socket' # "connected")
            => /\ mpc' = "stop"
               /\ save_socket' = "none"]_vars
    /\ [][(mpc = "connect_save" /\ mpc' # mpc /\ save_socket' # "connected")
            => mpc' = "stop"]_vars
    /\ [](stream_socket \in {"none", "open"} => save_socket = "none")
    /\ [](exit_reason = "connect" =>
             /\ ~running /\ rpc = "idle" /\ current_frame = None
             /\ mpc \in {"stop", "done"})
    /\ [][(mpc \in {"stop", "done"}) =>
             /\ mpc' \in {"stop", "done"}
             /\ exit_reason' = exit_reason
             /\ (save_socket' = save_socket \/ save_socket' = "closed")]_vars

\* the stream connection was refused: start() is over, the save server was
\* never contacted and the receiver never started
C11_Witness ==
    /\ mpc = "done" /\ exit_reason = "connect"
    /\ stream_socket = "closed" /\ save_socket = "none"
    /\ ~running /\ rpc = "idle"

\* C12: the counter never decreases, and a step that changes it is a step of
\* the main thread in its key handling or in one of its saves: it moves the
\* main thread's position and leaves the receiver's state alone.
CountingPcs == {"key", "remote_send", "remote_recv", "local_copy", "local_write"}
C12_CounterMonotone ==
    /\ [][image_counter' >= image_counter]_vars
    /\ [][image_counter' # image_counter =>
             /\ mpc \in CountingPcs
             /\ mpc' # mpc
             /\ recvVars' = recvVars
             /\ <<wire, rpos, sent, peer_closed, server_hung>>'
                   = <<wire, rpos, sent, peer_closed, server_hung>>]_vars

\* the counter has moved under remote, local and combined saves while the
\* receiver was at work
C12_Witness ==
    /\ image_counter >= 3 /\ keys_used = 2
    /\ saves.both_ok = 1 /\ saves.local_ok = 1
    /\ rpc = "recv_data"

\* C13: calling save_image_local with an explicit filename is idempotent on
\* the set of saved files: every call with the same name leaves exactly one
\* file of that name, holding the frame of the latest successful call, and
\* the counter never moves.
SavedNames == {f[1] : f \in files}
C13_ExplicitNameIdempotent ==
    /\ [](image_counter = 0)
    /\ [](SavedNames \subseteq ExplicitNames)
    /\ [](\A n \in ExplicitNames : Cardinality({f \in files : f[1] = n}) <= 1)
    /\ [][(mpc = "local_write" /\ local_success') =>
              /\ files' = {f \in files : f[1] # filename}
                             \cup {<<filename, local_frame>>}
              /\ (filename \in SavedNames => SavedNames' = SavedNames)]_vars
    /\ [][(mpc = "local_write" /\ mpc' # mpc /\ ~local_success') =>
              files' = files]_vars
C13_Witness ==
    /\ saves.local_ok = 2 /\ saves.other = 0
    /\ Cardinality(files) = 1
    /\ image_counter = 0
    /\ mpc = "loop_check"

\* C14: every read and write of the shared current-frame slot is made by a
\* thread that holds the frame lock: the receiver's publish, the display
\* loop's copy, the local save's copy and the wait-for-first-frame poll.
\* The main thread reads the slot at "wait", "display" and "local_copy", the
\* receiver writes it at "publish".
MainSlotPcs == {"wait", "display", "local_copy"}
C14_Original ==
    /\ [][(mpc \in MainSlotPcs /\ mpc' # mpc /\ exit_reason' # "interrupt")
              => frame_lock = "main"]_vars
    /\ [][current_frame' # current_frame => frame_lock = "receiver"]_vars

\* C15: once both connections are established the main thread always
\* eventually leaves the waiting-for-first-frame state, also when the
\* receiver loop has ended on a connection loss or a decode error before
\* publishing any frame.
C15_Original ==
    (mpc = "wait" /\ rpc = "dead" /\ current_frame = None) ~> (mpc # "wait")

\* C16: save_image_local holds the frame lock only while it tests the slot
\* and copies the frame.  The lock is free again before the file write and
\* before the no-frame return, so the receiver can publish during a write;
\* the file written holds the copy taken under the lock; with an empty slot
\* the call reports failure and writes nothing.
C16_LockOnlyForCopy ==
    /\ [](mpc = "local_copy" => frame_lock = "main")
    /\ [](mpc = "local_write" => frame_lock # "main")
    /\ [][(mpc = "local_copy" /\ mpc' # mpc) => frame_lock' = "free"]_vars
    /\ [][(mpc = "local_copy" /\ mpc' = "local_write") =>
              /\ current_frame # None
              /\ local_frame' = current_frame]_vars
    /\ [][(mpc = "local_copy" /\ mpc' # mpc /\ current_frame = None
              /\ exit_reason' # "interrupt") =>
              /\ mpc' = "loop_check"
              /\ ~local_success'
              /\ files' = files]_vars
    /\ [][(mpc = "local_write") =>
              \A f \in files' \ files : f[2] = local_frame]_vars
    /\ [][(mpc # "local_write") => files' = files]_vars
C16_Witness ==
    /\ mpc = "local_write"
    /\ rpc = "publish" /\ frame_lock = "receiver"
    /\ frame # local_frame /\ frame # None

\* C17: a combined save ('b') makes one filename and uses it for the remote
\* SAVE:<filename> command and for the local write, and it attempts both
\* saves: the remote one whether or not a frame is in the slot, the local one
\* whether or not the remote one succeeded.
BothSaving == key = "b" /\ mpc \in SavePcs
C17_BothSameName ==
    /\ [][(mpc = "key" /\ mpc' \in SavePcs /\ key' = "b") =>
              /\ mpc' = "remote_send"
              /\ filename' = GenName(image_counter')]_vars
    /\ [](BothSaving => filename # NoName)
    /\ [][(BothSaving /\ BothSaving') => filename' = filename]_vars
    /\ [][(BothSaving /\ mpc = "remote_send" /\ mpc' # mpc /\ mpc' # "stop") =>
              \/ mpc' = "remote_recv" /\ command' = <<"SAVE", filename>>
              \/ mpc' = "local_acquire" /\ ~remote_success']_vars
    /\ [][(BothSaving /\ mpc = "remote_recv" /\ mpc' # mpc /\ mpc' # "stop") =>
              mpc' = "local_acquire"]_vars
    /\ [][(BothSaving /\ mpc = "local_write") =>
              \A f \in files' \ files : f[1] = filename]_vars
C17_Witness ==
    /\ key = "b" /\ mpc = "loop_check"
    /\ ~remote_success /\ local_success
    /\ \E f \in files : command = <<"SAVE", f[1]>>
C17_WitnessNoFrame ==
    /\ BothSaving /\ mpc = "remote_recv"
    /\ current_frame = None
    /\ command = <<"SAVE", filename>>

\* C18: only the most recent frame is retained.  Frames are published in
\* stream order, after each publish the slot holds the decoding of the frame
\* most recently received whole, and the display only ever takes what the
\* slot holds at its read: frames published between two reads are skipped.
Published == IF JustDecoded THEN riter - 1 ELSE riter
Latest == IF Published = 0 THEN None ELSE Imdecode(Loads(sent[Published]))
C18_LatestOnly ==
    /\ [](current_frame = Latest)
    /\ [][Published' \in {Published, Published + 1}]_vars
    /\ [][(rpc = "publish" /\ rpc' # rpc) =>
              /\ Published' = Published + 1
              /\ current_frame' = Imdecode(Loads(sent[riter]))]_vars
    /\ [][display_frame' # display_frame =>
              \/ mpc = "display" /\ mpc' = "key" /\ display_frame' = Latest
              \/ mpc' = "stop" /\ display_frame' = None]_vars
C18_Witness ==
    /\ mpc = "display" /\ display_frame = None
    /\ Published = 2
    /\ current_frame = Imdecode(Loads(sent[2]))
    /\ current_frame # None
    /\ Imdecode(Loads(sent[1])) \notin {None, current_frame}

\* C19: once the slot holds a frame it never becomes empty again, whatever
\* payloads arrive afterwards, so in the interactive state the display loop
\* and save_image_local always find a frame.
C19_Original ==
    /\ [][current_frame # None => current_frame' # None]_vars
    /\ [](mpc \in {"display", "local_copy"} => current_frame # None)

\* C20: the sequence number in generated filenames is strictly increasing
\* over the run: every number in use (in a saved file's name, in the name a
\* save is working with, in the last SAVE command) is at most the counter,
\* and every number that newly appears is greater than the counter was, hence
\* greater than every number generated before it.
GenSeqs ==
    {f[1][2] : f \in files}
      \cup (IF filename # NoName THEN {filename[2]} ELSE {})
      \cup (IF Len(command) = 2 THEN {command[2][2]} ELSE {})
C20_SeqIncreasing ==
    /\ [](\A n \in GenSeqs : n <= image_counter)
    /\ [][\A n \in GenSeqs' \ GenSeqs : n > image_counter]_vars
    /\ [][(GenSeqs' \ GenSeqs # {}) => image_counter' > image_counter]_vars
C20_Witness ==
    /\ \E f \in files : \E g \in files : f[1][2] + 1 < g[1][2]
    /\ saves.both_ok = 1 /\ saves.local_ok = 1
    /\ image_counter = 3

====
